---- MODULE Spec2Model ----
(***************************************************************************)
(* A model of harvest/app.py: the scheduled collector (collect_tweets),    *)
(* the recollection endpoint (recollect_tweets), the rebuild job           *)
(* (rebuild_outputs), the render fan-out they share and the S3 bucket they *)
(* all write to.  chalicelib (twitter, recording, storage) is modelled     *)
(* from its consumed contract.                                             *)
(***************************************************************************)
EXTENDS Integers, Sequences, FiniteSets, TLC

VARIABLES
    bucket,   \* the S3 bucket: settings files, raw tweet log, rendered outputs
    now,      \* the wall clock, in ticks
    last,     \* what the most recent invocation did (its calls and its result)
    running   \* the invocations under way at once, each with its locals

vars == <<bucket, now, last, running>>

----------------------------------------------------------------------------
(* Bounds of the model *)

MaxTweet == 3       \* tweet ids 1..MaxTweet exist in the feed
MaxClock == 3       \* scheduled triggers happen at ticks 1..MaxClock
MaxURLs == 2        \* longest enumerated URL list of normal size

MaxRunning == 2     \* invocations that may be under way at once
PageSize == 1
MaxKeyLen == 4       \* tweets in one page of the search API

(* Program constants *)

max_repeat == 5           \* collect_tweets: agent.collect(max_repeat=5, ...)
MaxRecollectURLs == 20    \* recollect_tweets: if len(data) > 20
Date2000 == 0
BlankHtmlLimit == 600             \* date(2000, 1, 1): day 0 of the model's calendar

----------------------------------------------------------------------------
(* The feed: every tweet id names one immutable tweet *)

TweetIds == 1..MaxTweet
Authors == {0, 1}

\* two clock ticks to the day (midnight and noon), two days to the month
date_of(tick) == tick \div 2
time_of(tick) == tick % 2
month_of(day) == day \div 2


\* twitter.TweetCopy of the tweet with this id.  Ids grow with creation time:
\* one tweet is posted at each tick of the clock.
TweetCopy(id) ==
    [tweet_id    |-> id,
     screen_name |-> (id \div 2) % 2,
     created_at  |-> id,
     quest_id    |-> id % 2,
     wellformed  |-> (id % 3 # 2)]

\* the calendar days on which tweets are posted
Days == 0..date_of(TweetCopy(MaxTweet).created_at)

\* twitter.parse_tweet: the RunReport of a well-formed tweet
RunReport(tw) ==
    [tweet_id  |-> tw.tweet_id,
     reporter  |-> tw.screen_name,
     timestamp |-> tw.created_at,
     quest_id  |-> tw.quest_id]

\* twitter.parse_tweet raises TweetParseError on a tweet it cannot parse
RaisesTweetParseError(tw) == ~tw.wellformed

ParseErrorTweet(tw) == [tweet |-> tw, error_message |-> "parse error"]

----------------------------------------------------------------------------
(* Sequences and sets *)

Range(s) == {s[i] : i \in DOMAIN s}

RECURSIVE SortDesc(_)
SortDesc(S) ==
    IF S = {} THEN <<>>
    ELSE LET m == CHOOSE x \in S : \A y \in S : y <= x
         IN  <<m>> \o SortDesc(S \ {m})

RECURSIVE SortAsc(_)
SortAsc(S) ==
    IF S = {} THEN <<>>
    ELSE LET m == CHOOSE x \in S : \A y \in S : x <= y
         IN  <<m>> \o SortAsc(S \ {m})

RECURSIVE Flatten(_)
Flatten(ss) == IF ss = <<>> THEN <<>> ELSE Head(ss) \o Flatten(Tail(ss))

\* the elements of s in order, each kept at its first occurrence only
RECURSIVE Distinct(_)
Distinct(s) ==
    IF s = <<>> THEN <<>>
    ELSE LET front == Distinct(SubSeq(s, 1, Len(s) - 1))
             x == s[Len(s)]
         IN  IF x \in Range(front) THEN front ELSE Append(front, x)

----------------------------------------------------------------------------
(* The S3 bucket *)

EmptyMap == [k \in {} |-> {}]

\* settings/latest_tweet_id: absent, or a text that is digits or is not, or
\* bytes that are no UTF-8 text
AbsentFile == [tag |-> "absent", val |-> 0]
GarbageText == [tag |-> "garbage", val |-> 0]
UndecodableBytes == [tag |-> "undecodable", val |-> 0]
Digits(n) == [tag |-> "digits", val |-> n]

None == [tag |-> "None", val |-> 0]
Some(n) == [tag |-> "int", val |-> n]

EmptyBucket ==
    [cursor       |-> AbsentFile,  \* settings/latest_tweet_id
     censored     |-> {},          \* settings/censored_accounts
     raw          |-> EmptyMap,    \* tweets/<key>.json |-> TweetCopy set
     date         |-> EmptyMap,    \* date/<day> |-> RunReport set
     latest_date  |-> {},          \* date/latest: the days it lists
     user         |-> EmptyMap,    \* user/<screen name> |-> RunReport set
     userlist     |-> EmptyMap,    \* user/all
     quest        |-> EmptyMap,    \* quest/<quest id> |-> RunReport set
     questlist    |-> EmptyMap,    \* quest/all
     month        |-> EmptyMap,    \* month/<month> |-> RunReport set
     latest_month |-> {},          \* month/latest: the months it lists
     errors       |-> EmptyMap]    \* errors/error |-> ParseErrorTweet set

\* The state of one invocation: the bucket as it has written it so far, the
\* objects it wrote, the commits it asked of recorders, and its locals.
StartOf(b, t) ==
    [bucket       |-> b,
     now          |-> t,
     written      |-> {},
     log          |-> <<>>,     \* the writes in the order they were made
     commits      |-> {},
     contacted    |-> FALSE,    \* the Feed Collector was called
     tweets       |-> <<>>,
     reports      |-> <<>>,
     errors       |-> <<>>,
     parses       |-> <<>>,     \* every parse_tweets call: its input and output
     censored_mem |-> b.censored,
     candidates   |-> <<>>,     \* the ids handed to the Feed Collector
     raised       |-> FALSE,
     failed_at    |-> "none",   \* the call that raised
     status       |-> "none"]

\* bio.getvalue().decode('utf-8') raises UnicodeDecodeError, which the
\* except clause for ClientError does not catch
RaisesUnicodeDecodeError(b) == b.cursor.tag = "undecodable"

\* bucket.download_fileobj(key, bio); bio.getvalue().decode('utf-8'),
\* '' when the object is absent (ClientError)
latest_tweet_id_str(b) ==
    IF b.cursor.tag = "absent" THEN [tag |-> "empty", val |-> 0] ELSE b.cursor

\* the stored latest tweet id is never handed to the collector
since_id_forgotten(b) == None

\* int(latest_tweet_id_str), None on ValueError
since_id(b) ==
    LET s == latest_tweet_id_str(b)
    IN  IF s.tag = "digits" THEN Some(s.val) ELSE None

\* datetime.now().strftime('%Y%m%d_%H%M%S'): the day and the time of day
TimestampKey(tick) == <<date_of(tick), time_of(tick)>>
\* dt.strftime('%Y%m%d_000000'): the day at midnight
MidnightKey(day) == <<day, 0>>

\* recording.TweetRepository
TweetRepository_put(raw, key, tweets) ==
    [k \in DOMAIN raw \cup {key} |-> IF k = key THEN Range(tweets) ELSE raw[k]]

TweetRepository_append_tweets(raw, key, tweets) ==
    [k \in DOMAIN raw \cup {key} |->
        IF k = key
        THEN (IF key \in DOMAIN raw THEN raw[key] ELSE {}) \cup Range(tweets)
        ELSE raw[k]]

RECURSIVE TweetsInOrder(_)
TweetsInOrder(S) ==
    IF S = {} THEN <<>>
    ELSE LET m == CHOOSE x \in S : \A y \in S : x.tweet_id <= y.tweet_id
         IN  <<m>> \o TweetsInOrder(S \ {m})

TweetRepository_readall(raw, excluded) ==
    TweetsInOrder({tw \in UNION {raw[k] : k \in DOMAIN raw} :
                      tw.screen_name \notin excluded})

----------------------------------------------------------------------------
(* recording.Recorder and its rules *)

PartitioningRuleByDate(r) == date_of(r.timestamp)
PartitioningRuleByUser(r) == r.reporter
PartitioningRuleByQuest(r) == r.quest_id
PartitioningRuleByMonth(r) == month_of(date_of(r.timestamp))
PartitioningRuleByList(r) == 0    \* the list views hold one partition, 'all'

\* a date partition older than the skip target date is skipped
SkipSaveRuleByDate(skip_target_date, day) == day < skip_target_date
\* a user or quest partition none of whose reports is as new as the target
SkipSaveRuleByDateAndKey(skip_target_date, partition) ==
    \A r \in partition : date_of(r.timestamp) < skip_target_date
LastDayOfMonth(m) == CHOOSE d \in 0..(2 * m + 1) : month_of(d) = m /\ month_of(d + 1) # m

\* the partitioning rule a recorder is built with
PartitioningRule(rule, r) ==
    CASE rule = "ByDate" -> PartitioningRuleByDate(r)
      [] rule = "ByUser" -> PartitioningRuleByUser(r)
      [] rule = "ByQuest" -> PartitioningRuleByQuest(r)
      [] rule = "ByMonth" -> PartitioningRuleByMonth(r)
      [] rule = "ByList" -> PartitioningRuleByList(r)

\* recorder.add_all(reports): the partitions pending a write
Recorder_add_all(rule, reports) ==
    LET S == Range(reports)
    IN  [k \in {PartitioningRule(rule, r) : r \in S} |->
            {r \in S : PartitioningRule(rule, r) = k}]

\* recorder.count()
Recorder_count(partitions) == Cardinality(DOMAIN partitions)

\* The read of recorder.save(force, ignore_original): the stored content of
\* each pending partition that the skip rule lets through (all of them under
\* force), as far as it is stored.
Recorder_load(e, axis, partitions, skipped, force) ==
    LET stored == e.bucket[axis]
        saved == {k \in DOMAIN partitions : force \/ k \notin skipped}
    IN  [k \in saved \cap DOMAIN stored |-> stored[k]]

\* the write made as a conditional write: each partition merged with the
\* content stored when it is written
Recorder_write_on_stored(e, axis, partitions, skipped, force, ignore_original, original) ==
    LET stored == e.bucket[axis]
        saved == {k \in DOMAIN partitions : force \/ k \notin skipped}
        content(k) ==
            IF k \notin saved THEN stored[k]
            ELSE IF ignore_original \/ k \notin DOMAIN stored THEN partitions[k]
            ELSE stored[k] \cup partitions[k]
    IN  [e EXCEPT
            !.bucket[axis] = [k \in DOMAIN stored \cup saved |-> content(k)],
            !.written = @ \cup {<<axis, k>> : k \in saved},
            !.log = Append(@, [axis |-> axis, keys |-> saved]),
            !.commits = @ \cup {[recorder |-> axis, force |-> force,
                                 ignore_original |-> ignore_original]}]

\* The write of recorder.save: each of those partitions is written, merged
\* with the content that was read (original) unless ignore_original.  No
\* partition is ever deleted.
Recorder_write(e, axis, partitions, skipped, force, ignore_original, original) ==
    LET stored == e.bucket[axis]
        saved == {k \in DOMAIN partitions : force \/ k \notin skipped}
        content(k) ==
            IF k \notin saved THEN stored[k]
            ELSE IF ignore_original \/ k \notin DOMAIN original THEN partitions[k]
            ELSE original[k] \cup partitions[k]
    IN  [e EXCEPT
            !.bucket[axis] = [k \in DOMAIN stored \cup saved |-> content(k)],
            !.written = @ \cup {<<axis, k>> : k \in saved},
            !.log = Append(@, [axis |-> axis, keys |-> saved]),
            !.commits = @ \cup {[recorder |-> axis, force |-> force,
                                 ignore_original |-> ignore_original]}]

\* recorder.save(force, ignore_original): the read, then the write
Recorder_save(e, axis, partitions, skipped, force, ignore_original) ==
    Recorder_write(e, axis, partitions, skipped, force, ignore_original,
                   Recorder_load(e, axis, partitions, skipped, force))

\* The list views (user/all, quest/all) look unchanged, and are skipped unless
\* forced, when the commit leaves their membership as it is stored.
ListUnchanged(stored, k, partition, member, ignore_original) ==
    /\ k \in DOMAIN stored
    /\ {PartitioningRule(member, r) : r \in stored[k]} =
          {PartitioningRule(member, r) :
              r \in (IF ignore_original THEN partition
                                        ELSE stored[k] \cup partition)}

\* recording.LatestDatePageBuilder.build / LatestMonthPageBuilder.build: list
\* the leaf pages that exist now and write the index
LatestPageBuilder_build(e, axis, index) ==
    [e EXCEPT !.bucket[index] = DOMAIN e.bucket[axis],
              !.written = @ \cup {<<index, 0>>},
              !.log = Append(@, [axis |-> index, keys |-> {0}])]

----------------------------------------------------------------------------
(* parse_tweets and the render fan-out *)

\* the for loop of parse_tweets from tweets[i] on, with the lists built so far
RECURSIVE parse_loop(_, _, _, _)
parse_loop(tweets, i, parsed, errors) ==
    IF i > Len(tweets) THEN [parsed |-> parsed, errors |-> errors]
    ELSE IF RaisesTweetParseError(tweets[i])
    THEN parse_loop(tweets, i + 1, parsed,
                    Append(errors, ParseErrorTweet(tweets[i])))
    ELSE parse_loop(tweets, i + 1, Append(parsed, RunReport(tweets[i])), errors)

\* the loop left at the first tweet that fails to parse
parse_tweets_until_error(tweets) ==
    LET bad == {i \in DOMAIN tweets : RaisesTweetParseError(tweets[i])}
        first == IF bad = {} THEN Len(tweets)
                 ELSE CHOOSE i \in bad : \A j \in bad : i <= j
    IN  parse_loop(SubSeq(tweets, 1, first), 1, <<>>, <<>>)

parse_tweets(tweets) == parse_loop(tweets, 1, <<>>, <<>>)

render_date_contents(e, reports, skip_target_date, force_save, ignore_original) ==
    LET partitions == Recorder_add_all("ByDate", reports)
        skipped == {k \in DOMAIN partitions :
                       SkipSaveRuleByDate(skip_target_date, k)}
        e1 == IF Recorder_count(partitions) # 0
              THEN Recorder_save(e, "date", partitions, skipped,
                                 force_save, ignore_original)
              ELSE e
    IN  LatestPageBuilder_build(e1, "date", "latest_date")

render_user_contents(e, reports, skip_target_date, force_save, ignore_original) ==
    LET partitions == Recorder_add_all("ByUser", reports)
        skipped == {k \in DOMAIN partitions :
                       SkipSaveRuleByDateAndKey(skip_target_date, partitions[k])}
        e1 == IF Recorder_count(partitions) # 0
              THEN Recorder_save(e, "user", partitions, skipped,
                                 force_save, ignore_original)
              ELSE e
        byuserlist == Recorder_add_all("ByList", reports)
        unchanged == {k \in DOMAIN byuserlist :
                         ListUnchanged(e.bucket.userlist, k, byuserlist[k],
                                       "ByUser", ignore_original)}
    IN  IF Recorder_count(byuserlist) # 0
        THEN Recorder_save(e1, "userlist", byuserlist, unchanged,
                           force_save, ignore_original)
        ELSE e1

\* the topic list committed with the caller's force flag
render_quest_contents_unforced(e, reports, skip_target_date, force_save, ignore_original) ==
    LET partitions == Recorder_add_all("ByQuest", reports)
        skipped == {k \in DOMAIN partitions :
                       SkipSaveRuleByDateAndKey(skip_target_date, partitions[k])}
        e1 == IF Recorder_count(partitions) # 0
              THEN Recorder_save(e, "quest", partitions, skipped,
                                 force_save, ignore_original)
              ELSE e
        byquestlist == Recorder_add_all("ByList", reports)
        unchanged == {k \in DOMAIN byquestlist :
                         ListUnchanged(e.bucket.questlist, k, byquestlist[k],
                                       "ByQuest", ignore_original)}
    IN  Recorder_save(e1, "questlist", byquestlist, unchanged,
                      force_save, ignore_original)

\* render_quest_contents as far as its first recorder reads the stored pages
render_quest_contents_load(e, reports, skip_target_date, force_save) ==
    LET partitions == Recorder_add_all("ByQuest", reports)
        skipped == {k \in DOMAIN partitions :
                       SkipSaveRuleByDateAndKey(skip_target_date, partitions[k])}
    IN  IF Recorder_count(partitions) # 0
        THEN Recorder_load(e, "quest", partitions, skipped, force_save)
        ELSE EmptyMap

\* render_quest_contents from there on: the first recorder writes its pages,
\* merged with what it read (original), and the topic list is saved
render_quest_contents_write(e, reports, skip_target_date, force_save, ignore_original, original) ==
    LET partitions == Recorder_add_all("ByQuest", reports)
        skipped == {k \in DOMAIN partitions :
                       SkipSaveRuleByDateAndKey(skip_target_date, partitions[k])}
        e1 == IF Recorder_count(partitions) # 0
              THEN Recorder_write(e, "quest", partitions, skipped,
                                  force_save, ignore_original, original)
              ELSE e
        byquestlist == Recorder_add_all("ByList", reports)
        unchanged == {k \in DOMAIN byquestlist :
                         ListUnchanged(e.bucket.questlist, k, byquestlist[k],
                                       "ByQuest", ignore_original)}
    IN  Recorder_save(e1, "questlist", byquestlist, unchanged,
                      TRUE, ignore_original)

render_quest_contents(e, reports, skip_target_date, force_save, ignore_original) ==
    render_quest_contents_write(e, reports, skip_target_date, force_save,
        ignore_original,
        render_quest_contents_load(e, reports, skip_target_date, force_save))

\* recording.ErrorPageRecorder: one page, key 'error'
render_error_contents(e, errors, force_save, ignore_original) ==
    LET page == [k \in {0} |-> Range(errors)]
    IN  Recorder_save(e, "errors", page, {}, force_save, ignore_original)

\* the latest-month index built before the month pages are saved
render_month_contents_index_first(e, reports, skip_target_date, force_save) ==
    LET partitions == Recorder_add_all("ByMonth", reports)
        skipped == {k \in DOMAIN partitions :
                       SkipSaveRuleByDate(skip_target_date, LastDayOfMonth(k))}
        e1 == LatestPageBuilder_build(e, "month", "latest_month")
    IN  IF Recorder_count(partitions) # 0
        THEN Recorder_save(e1, "month", partitions, skipped, force_save, TRUE)
        ELSE e1

render_month_contents(e, reports, skip_target_date, force_save) ==
    LET partitions == Recorder_add_all("ByMonth", reports)
        skipped == {k \in DOMAIN partitions :
                       SkipSaveRuleByDate(skip_target_date, LastDayOfMonth(k))}
        e1 == IF Recorder_count(partitions) # 0
              THEN Recorder_save(e, "month", partitions, skipped,
                                 force_save, TRUE)
              ELSE e
    IN  LatestPageBuilder_build(e1, "month", "latest_month")

\* render_contents: the calls it makes, in order
render_contents(skip_target_date, ignore_original) ==
    << [call |-> "render_date_contents", skip_target_date |-> skip_target_date,
        force_save |-> FALSE, ignore_original |-> ignore_original],
       [call |-> "render_user_contents", skip_target_date |-> skip_target_date,
        force_save |-> FALSE, ignore_original |-> ignore_original],
       [call |-> "render_quest_contents", skip_target_date |-> skip_target_date,
        force_save |-> FALSE, ignore_original |-> ignore_original],
       [call |-> "render_error_contents",
        force_save |-> FALSE, ignore_original |-> ignore_original] >>

----------------------------------------------------------------------------
(* One statement of a handler *)

\* tweet_repository.put(tweet_log_file, tweets), the file named by the clock
Put(e) ==
    [e EXCEPT !.bucket.raw = TweetRepository_put(@, TimestampKey(e.now), e.tweets),
              !.written = @ \cup {<<"raw", TimestampKey(e.now)>>},
              !.log = Append(@, [axis |-> "raw", keys |-> {TimestampKey(e.now)}])]

\* the file of day dt written with put, as the scheduled run writes its file
AppendTweets_overwriting(e, dt) ==
    [e EXCEPT !.bucket.raw = TweetRepository_put(@, MidnightKey(dt), e.tweets),
              !.written = @ \cup {<<"raw", MidnightKey(dt)>>},
              !.log = Append(@, [axis |-> "raw", keys |-> {MidnightKey(dt)}])]

\* tweet_repository.append_tweets(tweet_log_file, tweets), the file of day dt
AppendTweets(e, dt) ==
    [e EXCEPT !.bucket.raw = TweetRepository_append_tweets(@, MidnightKey(dt), e.tweets),
              !.written = @ \cup {<<"raw", MidnightKey(dt)>>},
              !.log = Append(@, [axis |-> "raw", keys |-> {MidnightKey(dt)}])]

\* reports, errors = parse_tweets(app, tweets)
Parse(e) ==
    LET r == parse_tweets(e.tweets)
    IN  [e EXCEPT !.reports = r.parsed, !.errors = r.errors,
                  !.parses = Append(@, [tweets |-> e.tweets, parsed |-> r.parsed,
                                        errors |-> r.errors])]

\* latest_tweet = tweets[0]; bucket.upload_fileobj(str(latest_tweet.tweet_id))
latest_tweet(tweets) == tweets[1]

UploadLatestTweetId(e) ==
    IF Len(e.tweets) = 0    \* IndexError
    THEN [e EXCEPT !.raised = TRUE, !.failed_at = "upload_latest_tweet_id"]
    ELSE [e EXCEPT !.bucket.cursor = Digits(latest_tweet(e.tweets).tweet_id),
                   !.written = @ \cup {<<"cursor", 0>>},
                   !.log = Append(@, [axis |-> "cursor", keys |-> {0}])]

\* censored_accounts.save(): written only when the list changed in memory
CensoredAccounts_save(e) ==
    IF e.censored_mem = e.bucket.censored THEN e
    ELSE [e EXCEPT !.bucket.censored = e.censored_mem,
                   !.written = @ \cup {<<"censored", 0>>},
                   !.log = Append(@, [axis |-> "censored", keys |-> {0}])]

Exec(step, e) ==
    CASE step.call = "put" -> Put(e)
      [] step.call = "append_tweets" -> AppendTweets(e, step.dt)
      [] step.call = "for_tweets" -> [e EXCEPT !.tweets = step.tweets]
      [] step.call = "parse_tweets" -> Parse(e)
      [] step.call = "render_date_contents" ->
            render_date_contents(e, e.reports, step.skip_target_date,
                                 step.force_save, step.ignore_original)
      [] step.call = "render_user_contents" ->
            render_user_contents(e, e.reports, step.skip_target_date,
                                 step.force_save, step.ignore_original)
      [] step.call = "render_quest_contents" ->
            render_quest_contents(e, e.reports, step.skip_target_date,
                                  step.force_save, step.ignore_original)
      [] step.call = "render_error_contents" ->
            render_error_contents(e, e.errors, step.force_save,
                                  step.ignore_original)
      [] step.call = "render_month_contents" ->
            render_month_contents(e, e.reports, step.skip_target_date,
                                  step.force_save)
      [] step.call = "upload_latest_tweet_id" -> UploadLatestTweetId(e)
      [] step.call = "censored_accounts_save" -> CensoredAccounts_save(e)

\* the statements that call the storage, and so can fail
IsIO(step) == step.call \notin {"for_tweets", "parse_tweets"}
IOCount(steps) == Len(SelectSeq(steps, IsIO))

\* The statements of steps in order, until the (n+1)-th storage call, which
\* fails and raises; an exception ends the handler.
RECURSIVE Run(_, _, _)
Run(steps, n, e) ==
    IF steps = <<>> \/ e.raised THEN e
    ELSE IF ~IsIO(Head(steps)) THEN Run(Tail(steps), n, Exec(Head(steps), e))
    ELSE IF n = 0 THEN [e EXCEPT !.raised = TRUE, !.failed_at = Head(steps).call]
    ELSE Run(Tail(steps), n - 1, Exec(Head(steps), e))

\* the handler's outcome: it returns when nothing raised
Finish(steps, n, e) ==
    LET r == Run(steps, n, e)
    IN  [r EXCEPT !.status = IF r.raised THEN "error" ELSE "ok"]

----------------------------------------------------------------------------
(* collect_tweets: the scheduled collector *)

\* twitter.Agent.collect(max_repeat, since_id, censored): what it may return.
\* It returns tweets that exist by now, newer than since_id when one is given,
\* of accounts that are not censored, newest first, at most max_repeat pages;
\* it may add an account it saw to the censored accounts it was given.
Agent_collect(max_rep, since, censored, t) ==
    LET visible == {id \in TweetIds :
                      /\ TweetCopy(id).created_at <= t
                      /\ since.tag = "int" => id > since.val
                      /\ TweetCopy(id).screen_name \notin censored}
        \* the newest tweets, down to where the search stopped
        batches == {S \in SUBSET visible :
                      /\ Cardinality(S) <= max_rep * PageSize
                      /\ \A x \in S, y \in visible : y > x => y \in S}
        seen == {TweetCopy(id).screen_name : id \in visible}
    IN  {[tweets   |-> [i \in 1..Cardinality(S) |-> TweetCopy(SortDesc(S)[i])],
          censored |-> censored \cup C] :
            S \in batches, C \in {{}} \cup {{a} : a \in seen}}

\* the early return tested on a length no list has
NoTweets_never(tweets) == Len(tweets) < 0

\* if len(tweets) == 0: return
NoTweets(tweets) == Len(tweets) = 0

\* the latest tweet id saved before the error page is rendered
collect_steps_cursor_before_errors ==
    << [call |-> "put"],
       [call |-> "parse_tweets"],
       [call |-> "render_date_contents", skip_target_date |-> Date2000,
        force_save |-> FALSE, ignore_original |-> FALSE],
       [call |-> "render_user_contents", skip_target_date |-> Date2000,
        force_save |-> FALSE, ignore_original |-> FALSE],
       [call |-> "render_quest_contents", skip_target_date |-> Date2000,
        force_save |-> FALSE, ignore_original |-> FALSE],
       [call |-> "upload_latest_tweet_id"],
       [call |-> "render_error_contents",
        force_save |-> FALSE, ignore_original |-> FALSE],
       [call |-> "censored_accounts_save"] >>

\* the latest tweet id saved before the tweets are parsed and rendered
collect_steps_cursor_first ==
    << [call |-> "put"],
       [call |-> "upload_latest_tweet_id"],
       [call |-> "parse_tweets"],
       [call |-> "render_date_contents", skip_target_date |-> Date2000,
        force_save |-> FALSE, ignore_original |-> FALSE],
       [call |-> "render_user_contents", skip_target_date |-> Date2000,
        force_save |-> FALSE, ignore_original |-> FALSE],
       [call |-> "render_quest_contents", skip_target_date |-> Date2000,
        force_save |-> FALSE, ignore_original |-> FALSE],
       [call |-> "render_error_contents",
        force_save |-> FALSE, ignore_original |-> FALSE],
       [call |-> "censored_accounts_save"] >>

\* the month pages rendered with the others, as the rebuild job renders them
collect_steps_with_month ==
    << [call |-> "put"],
       [call |-> "parse_tweets"],
       [call |-> "render_date_contents", skip_target_date |-> Date2000,
        force_save |-> FALSE, ignore_original |-> FALSE],
       [call |-> "render_user_contents", skip_target_date |-> Date2000,
        force_save |-> FALSE, ignore_original |-> FALSE],
       [call |-> "render_quest_contents", skip_target_date |-> Date2000,
        force_save |-> FALSE, ignore_original |-> FALSE],
       [call |-> "render_month_contents", skip_target_date |-> Date2000,
        force_save |-> FALSE],
       [call |-> "render_error_contents",
        force_save |-> FALSE, ignore_original |-> FALSE],
       [call |-> "upload_latest_tweet_id"],
       [call |-> "censored_accounts_save"] >>

\* the statements of collect_tweets after the early return, in order
collect_steps ==
    << [call |-> "put"],
       [call |-> "parse_tweets"],
       [call |-> "render_date_contents", skip_target_date |-> Date2000,
        force_save |-> FALSE, ignore_original |-> FALSE],
       [call |-> "render_user_contents", skip_target_date |-> Date2000,
        force_save |-> FALSE, ignore_original |-> FALSE],
       [call |-> "render_quest_contents", skip_target_date |-> Date2000,
        force_save |-> FALSE, ignore_original |-> FALSE],
       [call |-> "render_error_contents",
        force_save |-> FALSE, ignore_original |-> FALSE],
       [call |-> "upload_latest_tweet_id"],
       [call |-> "censored_accounts_save"] >>

\* collected: the result of agent.collect; n: the statements that complete
\* before a storage or network call fails (all of them when none does)
collect_tweets(b, t, collected, n) ==
    LET e == [StartOf(b, t) EXCEPT !.contacted = TRUE,
                                   !.tweets = collected.tweets,
                                   !.censored_mem = collected.censored]
    IN  IF RaisesUnicodeDecodeError(b)
        THEN [StartOf(b, t) EXCEPT !.raised = TRUE,
                                   !.failed_at = "latest_tweet_id_str",
                                   !.status = "error"]
        ELSE IF NoTweets(collected.tweets)
        THEN [e EXCEPT !.status = "ok"]
        ELSE Finish(collect_steps, n, e)

----------------------------------------------------------------------------
(* recollect_tweets: the recollection endpoint *)

\* a status URL https://twitter.com/<screen name>/status/<id>, or a text that
\* is no such URL
StatusURL(a, i) == [screen_name |-> a, tweet_id |-> i, wellformed |-> TRUE]
NotAURL == [screen_name |-> 0, tweet_id |-> 0, wellformed |-> FALSE]
URLs == {StatusURL(a, i) : a \in Authors, i \in TweetIds} \cup {NotAURL}

\* request.json_body: a list of texts, or some other JSON value
JSONList(urls) == [kind |-> "list", urls |-> urls]
JSONObject == [kind |-> "object", urls |-> <<>>]

\* twitter.StatusTweetURLParser.parse_multi raises TweetURLParseError
RaisesTweetURLParseError(urls) == \E i \in DOMAIN urls : ~urls[i].wellformed

\* parse_multi: user |-> the tweet ids asked of that user, as a list of items
parse_multi(urls) ==
    LET users == Distinct([i \in DOMAIN urls |-> urls[i].screen_name])
        ids(a) == LET mine == SelectSeq(urls, LAMBDA u : u.screen_name = a)
                  IN  Distinct([i \in DOMAIN mine |-> mine[i].tweet_id])
    IN  [j \in DOMAIN users |-> [user |-> users[j], targets |-> ids(users[j])]]

\* recording.UserOutputRepository(user).load(): the tweet ids on the user's page
UserOutputRepository_load(b, user) ==
    IF user \in DOMAIN b.user THEN {r.tweet_id : r \in b.user[user]} ELSE {}

\* every target becomes a candidate, whatever the user's page holds
Candidates_unfiltered(b, user_retargets_dict) ==
    Flatten([j \in DOMAIN user_retargets_dict |-> user_retargets_dict[j].targets])

\* the for loop over user_retargets_dict.items() that fills candidates
Candidates(b, user_retargets_dict) ==
    Flatten([j \in DOMAIN user_retargets_dict |->
        LET user_reports == UserOutputRepository_load(b, user_retargets_dict[j].user)
        IN  SelectSeq(user_retargets_dict[j].targets,
                      LAMBDA target : target \notin user_reports)])

\* twitter.Agent.get_multi(candidates): the tweets found, in the order asked
Agent_get_multi(candidates, found) ==
    LET ids == SelectSeq(Distinct(candidates), LAMBDA i : i \in found)
    IN  [j \in DOMAIN ids |-> TweetCopy(ids[j])]

\* what get_multi may find: any of the candidates that exist by now
Findable(candidates, t) ==
    SUBSET {i \in Range(candidates) : TweetCopy(i).created_at <= t}

split_tweets_by_date(tweets) ==
    LET dates == Distinct([i \in DOMAIN tweets |-> date_of(tweets[i].created_at)])
    IN  [j \in DOMAIN dates |->
            [dt |-> dates[j],
             tweets |-> SelectSeq(tweets,
                            LAMBDA tw : date_of(tw.created_at) = dates[j])]]

\* the loop body without the render of the user pages
recollect_day_steps_without_user(dt, tweets) ==
    << [call |-> "for_tweets", tweets |-> tweets],
       [call |-> "append_tweets", dt |-> dt],
       [call |-> "parse_tweets"],
       [call |-> "render_date_contents", skip_target_date |-> Date2000,
        force_save |-> FALSE, ignore_original |-> FALSE],
       [call |-> "render_quest_contents", skip_target_date |-> Date2000,
        force_save |-> FALSE, ignore_original |-> FALSE],
       [call |-> "render_error_contents",
        force_save |-> FALSE, ignore_original |-> FALSE] >>

\* the loop body ended as the scheduled run ends, saving a latest tweet id
recollect_day_steps_saving_cursor(dt, tweets) ==
    << [call |-> "for_tweets", tweets |-> tweets],
       [call |-> "append_tweets", dt |-> dt],
       [call |-> "parse_tweets"],
       [call |-> "render_date_contents", skip_target_date |-> Date2000,
        force_save |-> FALSE, ignore_original |-> FALSE],
       [call |-> "render_user_contents", skip_target_date |-> Date2000,
        force_save |-> FALSE, ignore_original |-> FALSE],
       [call |-> "render_quest_contents", skip_target_date |-> Date2000,
        force_save |-> FALSE, ignore_original |-> FALSE],
       [call |-> "render_error_contents",
        force_save |-> FALSE, ignore_original |-> FALSE],
       [call |-> "upload_latest_tweet_id"] >>

\* the day's tweets appended to the raw log after they are rendered
recollect_day_steps_append_last(dt, tweets) ==
    << [call |-> "for_tweets", tweets |-> tweets],
       [call |-> "parse_tweets"],
       [call |-> "render_date_contents", skip_target_date |-> Date2000,
        force_save |-> FALSE, ignore_original |-> FALSE],
       [call |-> "render_user_contents", skip_target_date |-> Date2000,
        force_save |-> FALSE, ignore_original |-> FALSE],
       [call |-> "render_quest_contents", skip_target_date |-> Date2000,
        force_save |-> FALSE, ignore_original |-> FALSE],
       [call |-> "render_error_contents",
        force_save |-> FALSE, ignore_original |-> FALSE],
       [call |-> "append_tweets", dt |-> dt] >>

\* the body of the loop over tweets_by_date.items(), for one day
recollect_day_steps(dt, tweets) ==
    << [call |-> "for_tweets", tweets |-> tweets],
       [call |-> "append_tweets", dt |-> dt],
       [call |-> "parse_tweets"],
       [call |-> "render_date_contents", skip_target_date |-> Date2000,
        force_save |-> FALSE, ignore_original |-> FALSE],
       [call |-> "render_user_contents", skip_target_date |-> Date2000,
        force_save |-> FALSE, ignore_original |-> FALSE],
       [call |-> "render_quest_contents", skip_target_date |-> Date2000,
        force_save |-> FALSE, ignore_original |-> FALSE],
       [call |-> "render_error_contents",
        force_save |-> FALSE, ignore_original |-> FALSE] >>

recollect_steps(tweets_by_date) ==
    Flatten([j \in DOMAIN tweets_by_date |->
                recollect_day_steps(tweets_by_date[j].dt, tweets_by_date[j].tweets)])

\* the checks without the one on the length of the list
BadRequest_any_length(data) ==
    \/ data.kind # "list"
    \/ RaisesTweetURLParseError(data.urls)

\* the three checks that raise BadRequestError("wrong format")
BadRequest(data) ==
    \/ data.kind # "list"
    \/ Len(data.urls) > MaxRecollectURLs
    \/ RaisesTweetURLParseError(data.urls)

\* data: the request body; found: the candidates get_multi finds;
\* n: the statements of the loop that complete before a call fails
recollect_tweets(b, t, data, found, n) ==
    LET e == StartOf(b, t)
        candidates == Candidates(b, parse_multi(data.urls))
        tweets == Agent_get_multi(candidates, found)
        fetched == [e EXCEPT !.contacted = TRUE, !.candidates = candidates]
    IN  IF BadRequest(data) THEN [e EXCEPT !.status = "bad_request"]
        ELSE IF candidates = <<>> THEN [e EXCEPT !.status = "ok"]
        ELSE IF tweets = <<>> THEN [fetched EXCEPT !.status = "ok"]
        ELSE Finish(recollect_steps(split_tweets_by_date(tweets)), n, fetched)

----------------------------------------------------------------------------
(* rebuild_outputs: the rebuild job *)

\* skip_target_date: the event's date, date(2000, 1, 1) when it gives none
rebuild_skip_target_date(event) ==
    IF event.skipTargetDate.tag = "int" THEN event.skipTargetDate.val ELSE Date2000

\* one stage behind its skip flag
Stage(skip, step) == IF skip THEN <<>> ELSE <<step>>

\* the statements of rebuild_outputs after the raw log is read, in order
rebuild_steps(event) ==
    LET d == rebuild_skip_target_date(event)
    IN  << [call |-> "parse_tweets"] >>
        \o Stage(event.skipBuildDate,
                 [call |-> "render_date_contents", skip_target_date |-> d,
                  force_save |-> FALSE, ignore_original |-> TRUE])
        \o Stage(event.skipBuildUser,
                 [call |-> "render_user_contents", skip_target_date |-> d,
                  force_save |-> FALSE, ignore_original |-> TRUE])
        \o Stage(event.skipBuildQuest,
                 [call |-> "render_quest_contents", skip_target_date |-> d,
                  force_save |-> FALSE, ignore_original |-> TRUE])
        \o Stage(event.skipBuildMonth,
                 [call |-> "render_month_contents", skip_target_date |-> d,
                  force_save |-> FALSE])
        \o render_contents(d, TRUE)

rebuild_outputs(b, t, event, n) ==
    LET tweets == TweetRepository_readall(b.raw, b.censored)
        e == [StartOf(b, t) EXCEPT !.tweets = tweets]
    IN  Finish(rebuild_steps(event), n, e)

----------------------------------------------------------------------------
(* invalidate_cloudfront_cache: the cache invalidator *)

\* A text is the sequence of its parts: a slash, or a name without a slash
\* (two names in a row read as one longer name).
Slash == "/"
IndexHtml == "index.html"
KeyParts == {Slash, IndexHtml, "x"}

\* str.endswith
EndsWith(text, suffix) ==
    /\ Len(suffix) <= Len(text)
    /\ SubSeq(text, Len(text) - Len(suffix) + 1, Len(text)) = suffix

\* str.rfind('/'), counted from 1; 0 when there is none
rfind(text) ==
    LET at == {i \in DOMAIN text : text[i] = Slash}
    IN  IF at = {} THEN 0 ELSE CHOOSE i \in at : \A j \in at : j <= i

NoS3Event == [key |-> <<>>, size |-> 0]

\* the invalidation made of the file itself
invalidate_cloudfront_cache_of_file(event) ==
    LET object_size == event.size
        item == <<Slash>> \o event.key
    IN  IF ~EndsWith(item, <<Slash, IndexHtml>>) THEN <<>>
        ELSE IF object_size < BlankHtmlLimit THEN <<>>
        ELSE LET items == <<item>>
             IN  << [Quantity |-> Len(items), Items |-> items] >>

\* event: the key and size of event['Records'][0]['s3']['object'];
\* the result: the Paths of the create_invalidation calls made, in order
invalidate_cloudfront_cache(event) ==
    LET object_size == event.size
        item == <<Slash>> \o event.key
    IN  IF ~EndsWith(item, <<Slash, IndexHtml>>) THEN <<>>
        ELSE IF object_size < BlankHtmlLimit THEN <<>>
        ELSE LET items == <<SubSeq(item, 1, rfind(item))>>
             IN  << [Quantity |-> Len(items), Items |-> items] >>

----------------------------------------------------------------------------
(* The state machine: invocations run one after another *)

\* the commits of the topic list (quest/all) an invocation asked for
QuestListCommits(e) == {c \in e.commits : c.recorder = "questlist"}

\* what an invocation leaves for the record
Trace(op, request, e) ==
    [op        |-> op,
     request   |-> request,         \* the kind of request body (recollection)
     status    |-> e.status,        \* "ok", "bad_request" or "error"
     failed_at |-> e.failed_at,     \* the call that raised, under "error"
     contacted |-> e.contacted,     \* the Feed Collector was called
     tweets    |-> IF e.contacted   \* the ids it returned
                   THEN [i \in DOMAIN e.tweets |-> e.tweets[i].tweet_id]
                   ELSE <<>>,
     wrote     |-> e.written # {},  \* some object was written
     event     |-> NoS3Event,       \* the storage event (cache invalidator)
     invalidations |-> <<>>,        \* the invalidations made of the CDN
     questlist |-> [commits |-> {c.force : c \in QuestListCommits(e)},
                    written |-> <<"questlist", 0>> \in e.written],
     \* the collector returned again the tweets of the scheduled run before,
     \* which had rendered them and failed before it saved the latest tweet id
     again     |-> /\ op = "collect_tweets"
                   /\ last.op = "collect_tweets"
                   /\ last.failed_at = "upload_latest_tweet_id"
                   /\ Range(last.tweets) \subseteq {tw.tweet_id : tw \in Range(e.tweets)}]

\* an invocation under way: the statements it has yet to run, its locals,
\* what its recorder read of the topic pages, and the reports it has written
\* to topic pages
IdleSlot ==
    [pc |-> "idle", op |-> "none", t |-> 0, steps |-> <<>>, tweets |-> <<>>,
     reports |-> <<>>, errors |-> <<>>, censored_mem |-> {},
     original |-> EmptyMap, committed |-> {}]

Slots == 1..MaxRunning

Init ==
    /\ bucket \in {EmptyBucket, [EmptyBucket EXCEPT !.cursor = GarbageText]}
    /\ now = 0
    /\ last = [op |-> "none", request |-> "none", status |-> "none",
               failed_at |-> "none", contacted |-> FALSE, tweets |-> <<>>,
               wrote |-> FALSE, event |-> NoS3Event, invalidations |-> <<>>,
               questlist |-> [commits |-> {}, written |-> FALSE],
               again |-> FALSE]
    /\ running = [i \in Slots |-> IdleSlot]

\* The schedule fires: Rate(30, unit=Rate.MINUTES), later than the last time.
\* A run that raises, or returns early, never saves the censored accounts, so
\* what the collector added to them in memory is not enumerated for such runs.
CollectTweets(failures) ==
    /\ now < MaxClock
    /\ \E collected \in Agent_collect(max_repeat, since_id(bucket),
                                      bucket.censored, now + 1),
          n \in failures \cup {IOCount(collect_steps)} :
          LET e == collect_tweets(bucket, now + 1, collected, n)
          IN  /\ e.status = "ok" \/ collected.censored = bucket.censored
              /\ NoTweets(collected.tweets) =>
                    /\ n = IOCount(collect_steps)
                    /\ collected.censored = bucket.censored
              /\ bucket' = e.bucket
              /\ last' = Trace("collect_tweets", "none", e)
    /\ now' = now + 1
    /\ UNCHANGED running

\* the URLs that name a tweet under its author's screen name
TrueURLs == {StatusURL(TweetCopy(i).screen_name, i) : i \in TweetIds}

\* the request bodies tried: every list of one text, every list of up to
\* MaxURLs texts that are true URLs or no URLs, a list of MaxRecollectURLs
\* and one of one more, and a body that is no list
Requests ==
    {JSONList(<<u>>) : u \in URLs}
    \cup {JSONList(urls) :
            urls \in UNION {[1..k -> TrueURLs \cup {NotAURL}] : k \in 0..MaxURLs}}
    \cup {JSONList([i \in 1..k |-> StatusURL(0, MaxTweet)]) :
            k \in {MaxRecollectURLs, MaxRecollectURLs + 1}}
    \cup {JSONObject}

\* a request the endpoint is to reject: no list, more than 20 entries, or
\* with a text that is no status URL
InvalidRequest(data) ==
    \/ data.kind # "list"
    \/ Len(data.urls) > 20
    \/ \E i \in DOMAIN data.urls : data.urls[i] = NotAURL

\* every tweet a valid request asks for is on the page of the user it names
AllPresent(b, data) ==
    \A i \in DOMAIN data.urls :
        /\ data.urls[i].screen_name \in DOMAIN b.user
        /\ \E r \in b.user[data.urls[i].screen_name] :
              r.tweet_id = data.urls[i].tweet_id

RequestKind(b, data) ==
    IF InvalidRequest(data) THEN "invalid"
    ELSE IF data.urls = <<>> THEN "empty"
    ELSE IF AllPresent(b, data) THEN "all_present"
    ELSE "some_absent"

\* the lists of one text
ShortRequests == {JSONList(<<u>>) : u \in URLs}

\* the one request whose recollection is also let fail part-way
FirstTweetRequests == {JSONList(<<StatusURL(TweetCopy(1).screen_name, 1)>>)}

\* POST /recollect_tweets
RecollectTweets(requests, failing) ==
    /\ \E data \in requests :
         LET candidates == IF BadRequest(data) THEN <<>>
                           ELSE Candidates(bucket, parse_multi(data.urls))
         IN  \E found \in Findable(candidates, now) :
             LET all == IOCount(recollect_steps(split_tweets_by_date(
                                    Agent_get_multi(candidates, found))))
             IN  \E n \in (IF failing THEN 0..all ELSE {all}) :
                    LET e == recollect_tweets(bucket, now, data, found, n)
                    IN  /\ bucket' = e.bucket
                        /\ last' = Trace("recollect_tweets", RequestKind(bucket, data), e)
    /\ UNCHANGED <<now, running>>

\* the events tried: every setting of the four skip flags with no skip
\* target date, and every skip target date (each day, and the day after the
\* last) with no flag set
DefaultEvent ==
    [skipTargetDate |-> None, skipBuildDate |-> FALSE, skipBuildUser |-> FALSE,
     skipBuildQuest |-> FALSE, skipBuildMonth |-> FALSE]

Events ==
    [skipTargetDate : {None},
     skipBuildDate : BOOLEAN, skipBuildUser : BOOLEAN,
     skipBuildQuest : BOOLEAN, skipBuildMonth : BOOLEAN]
    \cup
    [skipTargetDate : {Some(d) : d \in Days \cup {date_of(TweetCopy(MaxTweet).created_at) + 1}},
     skipBuildDate : {FALSE}, skipBuildUser : {FALSE},
     skipBuildQuest : {FALSE}, skipBuildMonth : {FALSE}]

\* the rebuild_outputs Lambda is invoked, and runs to its end
RebuildOutputs(events) ==
    /\ \E event \in events :
          LET e == rebuild_outputs(bucket, now, event,
                                   IOCount(rebuild_steps(event)))
          IN  /\ bucket' = e.bucket
              /\ last' = Trace("rebuild_outputs", "none", e)
    /\ UNCHANGED <<now, running>>

\* the storage events tried: every key of up to MaxKeyLen parts, with sizes
\* around the limit
ObjectSizes == {0, 400, BlankHtmlLimit - 1, BlankHtmlLimit, BlankHtmlLimit + 1, 2000}
S3Events ==
    [key : UNION {[1..k -> KeyParts] : k \in 0..MaxKeyLen}, size : ObjectSizes]

\* S3 notifies a write: the invalidate_cloudfront_cache Lambda is invoked
InvalidateCloudfrontCache ==
    /\ \E event \in S3Events :
          last' = [Trace("invalidate_cloudfront_cache", "none", StartOf(bucket, now))
                      EXCEPT !.event = event,
                             !.invalidations = invalidate_cloudfront_cache(event)]
    /\ UNCHANGED <<bucket, now, running>>

\* Invocations under way at once.  Each runs its statements in order, one
\* storage call at a time, and none waits for another: Lambda starts a
\* scheduled run or a recollection whatever else is running.  Up to
\* MaxRunning invocations that have tweets to render are followed, each to
\* its return; every storage call succeeds.

\* the invocation's state as its next statement finds it
Env(s) ==
    [StartOf(bucket, s.t) EXCEPT !.contacted = TRUE,
                                 !.tweets = s.tweets,
                                 !.reports = s.reports,
                                 !.errors = s.errors,
                                 !.censored_mem = s.censored_mem]

\* the schedule fires: the run reads the latest tweet id and collects; with
\* no tweets it returns at once, and so it ends when the read raises
StartCollectTweets ==
    /\ now < MaxClock
    /\ \E i \in Slots :
          /\ running[i].pc = "idle"
          /\ \E collected \in Agent_collect(max_repeat, since_id(bucket),
                                            bucket.censored, now + 1) :
              /\ running' = [running EXCEPT ![i] =
                    IF RaisesUnicodeDecodeError(bucket)
                       \/ NoTweets(collected.tweets)
                    THEN IdleSlot
                    ELSE [IdleSlot EXCEPT !.pc = "running",
                                          !.op = "collect_tweets",
                                          !.t = now + 1,
                                          !.steps = collect_steps,
                                          !.tweets = collected.tweets,
                                          !.censored_mem = collected.censored]]
    /\ now' = now + 1
    /\ UNCHANGED <<bucket, last>>

\* POST /recollect_tweets: the checks, the candidates and the fetch, for a
\* request that has tweets to render
StartRecollectTweets ==
    /\ \E i \in Slots, data \in ShortRequests :
          /\ running[i].pc = "idle"
          /\ ~BadRequest(data)
          /\ LET candidates == Candidates(bucket, parse_multi(data.urls))
             IN  \E found \in Findable(candidates, now) :
                    LET tweets == Agent_get_multi(candidates, found)
                    IN  /\ tweets # <<>>
                        /\ running' = [running EXCEPT ![i] =
                              [IdleSlot EXCEPT
                                 !.pc = "running",
                                 !.op = "recollect_tweets",
                                 !.t = now,
                                 !.steps = recollect_steps(
                                             split_tweets_by_date(tweets))]]
    /\ UNCHANGED <<bucket, now, last>>

\* an invocation runs its next statement, other than render_quest_contents
NextStatement ==
    /\ \E i \in Slots :
          /\ running[i].pc = "running"
          /\ running[i].steps # <<>>
          /\ Head(running[i].steps).call # "render_quest_contents"
          /\ LET e == Exec(Head(running[i].steps), Env(running[i]))
             IN  /\ bucket' = e.bucket
                 /\ running' = [running EXCEPT ![i].steps = Tail(@),
                                               ![i].tweets = e.tweets,
                                               ![i].reports = e.reports,
                                               ![i].errors = e.errors]
    /\ UNCHANGED <<now, last>>

\* render_quest_contents, as far as its recorder reads the stored topic pages
QuestRecorderLoad ==
    /\ \E i \in Slots :
          /\ running[i].pc = "running"
          /\ running[i].steps # <<>>
          /\ Head(running[i].steps).call = "render_quest_contents"
          /\ LET step == Head(running[i].steps)
             IN  running' = [running EXCEPT
                    ![i].pc = "loaded",
                    ![i].original =
                        render_quest_contents_load(Env(running[i]),
                            running[i].reports, step.skip_target_date,
                            step.force_save)]
    /\ UNCHANGED <<bucket, now, last>>

\* render_quest_contents from there on: the topic pages are written, merged
\* with what was read, and the topic list is saved
QuestRecorderWrite ==
    /\ \E i \in Slots :
          /\ running[i].pc = "loaded"
          /\ LET step == Head(running[i].steps)
                 e == render_quest_contents_write(Env(running[i]),
                          running[i].reports, step.skip_target_date,
                          step.force_save, step.ignore_original,
                          running[i].original)
             IN  /\ bucket' = e.bucket
                 /\ running' = [running EXCEPT
                       ![i].pc = "running",
                       ![i].steps = Tail(@),
                       ![i].committed = @ \cup
                           {r \in Range(running[i].reports) :
                               <<"quest", PartitioningRule("ByQuest", r)>>
                                   \in e.written}]
    /\ UNCHANGED <<now, last>>

\* the handler returns
Return ==
    /\ \E i \in Slots :
          /\ running[i].pc = "running"
          /\ running[i].steps = <<>>
          /\ running' = [running EXCEPT ![i].pc = "returned"]
    /\ UNCHANGED <<bucket, now, last>>

Next ==
    \/ CollectTweets(0..IOCount(collect_steps))
    \/ RecollectTweets(ShortRequests, FALSE)
    \/ RebuildOutputs({DefaultEvent})

Spec == Init /\ [][Next]_vars

\* scheduled runs and recollections that fail part-way
NextFailing ==
    \/ CollectTweets(0..IOCount(collect_steps))
    \/ RecollectTweets(ShortRequests, FALSE)
    \/ RecollectTweets(FirstTweetRequests, TRUE)
    \/ RebuildOutputs({DefaultEvent})

SpecFailing == Init /\ [][NextFailing]_vars

\* storage events alone
NextInvalidate == InvalidateCloudfrontCache

SpecInvalidate == Init /\ [][NextInvalidate]_vars

NextRecollect ==
    \/ CollectTweets({})
    \/ RecollectTweets(Requests, FALSE)
    \/ RecollectTweets(FirstTweetRequests, TRUE)
    \/ RebuildOutputs({DefaultEvent})

SpecRecollect == Init /\ [][NextRecollect]_vars

NextRebuild ==
    \/ CollectTweets({})
    \/ RecollectTweets(ShortRequests, FALSE)
    \/ RebuildOutputs(Events)

SpecRebuild == Init /\ [][NextRebuild]_vars

\* scheduled runs and recollections under way at once
NextConcurrent ==
    \/ StartCollectTweets
    \/ StartRecollectTweets
    \/ NextStatement
    \/ QuestRecorderLoad
    \/ QuestRecorderWrite
    \/ Return

SpecConcurrent == Init /\ [][NextConcurrent]_vars

\* the invocations one after another, from any stored latest tweet id
InitAnyCursor ==
    /\ bucket \in {[EmptyBucket EXCEPT !.cursor = c] :
                      c \in {AbsentFile, GarbageText, UndecodableBytes}}
    /\ now = 0
    /\ last = [op |-> "none", request |-> "none", status |-> "none",
               failed_at |-> "none", contacted |-> FALSE, tweets |-> <<>>,
               wrote |-> FALSE, event |-> NoS3Event, invalidations |-> <<>>,
               questlist |-> [commits |-> {}, written |-> FALSE],
               again |-> FALSE]
    /\ running = [i \in Slots |-> IdleSlot]

SpecAnyCursor == InitAnyCursor /\ [][Next]_vars

----------------------------------------------------------------------------
(* Properties of the scheduled run *)

\* C1: a scheduled run to which the collector returns no tweet ends normally
\* and changes nothing in the bucket: no raw log object, no page, no index,
\* no latest tweet id, no censored accounts.
C1_EmptyRunWritesNothing ==
    [][(/\ last'.op = "collect_tweets"
        /\ now' = now + 1
        /\ last'.contacted
        /\ last'.tweets = <<>>)
       => /\ last'.status = "ok"
          /\ ~last'.wrote
          /\ bucket' = bucket]_vars

\* a scheduled run got no tweet although the bucket already holds pages and
\* a latest tweet id
C1_EmptyRunOverContent ==
    /\ last.op = "collect_tweets"
    /\ last.contacted
    /\ last.tweets = <<>>
    /\ last.status = "ok"
    /\ bucket.date # EmptyMap
    /\ bucket.cursor.tag = "digits"

\* C2: once the stored latest tweet id is a number, no invocation, failed
\* or not, replaces it by a smaller one or by something that is no number.
C2_CursorNeverMovesBack ==
    [][bucket.cursor.tag = "digits"
       => /\ bucket'.cursor.tag = "digits"
          /\ bucket'.cursor.val >= bucket.cursor.val]_vars

\* a scheduled run, after an earlier one, advanced the latest tweet id to the
\* newest tweet there is
C2_CursorAdvancedTwice ==
    /\ last.op = "collect_tweets"
    /\ last.status = "ok"
    /\ last.tweets # <<>>
    /\ bucket.cursor = Digits(MaxTweet)
    /\ Cardinality(DOMAIN bucket.raw) >= 2

----------------------------------------------------------------------------
(* Properties of the recollection endpoint *)

\* C3: a recollection request whose body is no list, has more than 20
\* entries, or holds a text that is no status URL is answered with a client
\* error, without calling the collector and without writing anything.
C3_InvalidRequestRejected ==
    [][(/\ last'.op = "recollect_tweets"
        /\ last'.request = "invalid")
       => /\ last'.status = "bad_request"
          /\ ~last'.contacted
          /\ ~last'.wrote
          /\ bucket' = bucket]_vars

\* an invalid request was rejected while the bucket holds user pages
C3_RejectedOverContent ==
    /\ last.op = "recollect_tweets"
    /\ last.request = "invalid"
    /\ last.status = "bad_request"
    /\ bucket.user # EmptyMap

\* C4: a recollection all of whose targets are already on the page of the
\* user their URL names calls the collector not at all, writes nothing and
\* returns success; and every id a recollection hands to the collector was
\* absent from the page of the user a URL of the request names it under.
C4_PresentTargetsNotFetched ==
    \A data \in Requests :
        ~InvalidRequest(data) =>
            LET asked == recollect_tweets(bucket, now, data, {}, 0)
            IN  /\ AllPresent(bucket, data) =>
                      /\ asked.status = "ok"
                      /\ ~asked.contacted
                      /\ asked.candidates = <<>>
                      /\ asked.written = {}
                      /\ asked.bucket = bucket
                /\ \A j \in DOMAIN asked.candidates :
                      \E i \in DOMAIN data.urls :
                          /\ data.urls[i].tweet_id = asked.candidates[j]
                          /\ asked.candidates[j] \notin
                                UserOutputRepository_load(bucket, data.urls[i].screen_name)

\* a recollection asked only for tweets already on their users' pages
C4_AllPresentRequested ==
    /\ last.op = "recollect_tweets"
    /\ last.request = "all_present"
    /\ last.status = "ok"
    /\ ~last.contacted
    /\ bucket.user # EmptyMap

----------------------------------------------------------------------------
(* Properties of parse_tweets and the render fan-out *)

\* the lists of tweets parse_tweets is tried on
TweetLists ==
    UNION {[1..k -> {TweetCopy(id) : id \in TweetIds}] : k \in 0..MaxTweet}

\* C5: parse_tweets turns each tweet of a list into one report or one parse
\* error, in the order of the list, so that reports and errors together
\* number the tweets; and a tweet that fails to parse does not keep the tweets
\* after it from being parsed and rendered.
C5_EachTweetParsedAlone ==
    /\ \A tweets \in TweetLists :
          LET r == parse_tweets(tweets)
              good == SelectSeq(tweets, LAMBDA tw : tw.wellformed)
              bad == SelectSeq(tweets, LAMBDA tw : ~tw.wellformed)
          IN  /\ Len(r.parsed) + Len(r.errors) = Len(tweets)
              /\ r.parsed = [i \in DOMAIN good |-> RunReport(good[i])]
              /\ r.errors = [i \in DOMAIN bad |-> ParseErrorTweet(bad[i])]
    /\ (last.op \in {"collect_tweets", "recollect_tweets"} /\ last.status = "ok") =>
          \A i \in DOMAIN last.tweets :
              LET tw == TweetCopy(last.tweets[i])
                  day == date_of(tw.created_at)
              IN  IF tw.wellformed
                  THEN /\ day \in DOMAIN bucket.date
                       /\ RunReport(tw) \in bucket.date[day]
                       /\ tw.screen_name \in DOMAIN bucket.user
                       /\ RunReport(tw) \in bucket.user[tw.screen_name]
                       /\ tw.quest_id \in DOMAIN bucket.quest
                       /\ RunReport(tw) \in bucket.quest[tw.quest_id]
                  ELSE /\ 0 \in DOMAIN bucket.errors
                       /\ ParseErrorTweet(tw) \in bucket.errors[0]

\* a scheduled run completed over a batch in which a tweet that fails to
\* parse comes before one that parses
C5_ErrorBeforeReport ==
    /\ last.op = "collect_tweets"
    /\ last.status = "ok"
    /\ \E i, j \in DOMAIN last.tweets :
          /\ i < j
          /\ ~TweetCopy(last.tweets[i]).wellformed
          /\ TweetCopy(last.tweets[j]).wellformed

\* the reports among the tweets of the last invocation
LastReports == {RunReport(TweetCopy(id)) : id \in {i \in Range(last.tweets) : TweetCopy(i).wellformed}}

\* the reports a rebuild of this bucket renders
FilteredReports(b) ==
    {RunReport(tw) : tw \in {x \in UNION {b.raw[k] : k \in DOMAIN b.raw} :
                                x.wellformed /\ x.screen_name \notin b.censored}}

\* C6 as stated: every scheduled run, recollection and rebuild that completes
\* has committed the topic list with force.
C6_TopicListCommittedEveryRun ==
    (last.op \in {"collect_tweets", "recollect_tweets", "rebuild_outputs"}
        /\ last.status = "ok")
    => last.questlist.commits = {TRUE}

\* C6: every scheduled run and recollection that got at least one tweet, and
\* every rebuild, on completing has committed the topic list, with force only
\* although its caller passed no force; and the topic list is written when
\* the run had at least one report, also when it brought no new topic.
C6_TopicListCommittedWhenRendering ==
    (/\ last.status = "ok"
     /\ \/ last.op = "rebuild_outputs"
        \/ /\ last.op \in {"collect_tweets", "recollect_tweets"}
           /\ last.contacted
           /\ last.tweets # <<>>)
    => /\ last.questlist.commits = {TRUE}
       /\ (IF last.op = "rebuild_outputs" THEN FilteredReports(bucket) # {}
                                          ELSE LastReports # {})
             => last.questlist.written

\* a scheduled run completed whose reports are all of a topic that an earlier
\* report, of another run, is listed under
C6_NoNewTopic ==
    /\ last.op = "collect_tweets"
    /\ last.status = "ok"
    /\ LastReports # {}
    /\ last.questlist.written
    /\ 0 \in DOMAIN bucket.questlist
    /\ \A r \in LastReports :
          \E old \in bucket.questlist[0] \ LastReports : old.quest_id = r.quest_id

----------------------------------------------------------------------------
(* Properties of the rebuild job *)

\* the leaf pages of the four axes
Axes == {"date", "user", "quest", "month"}

\* C7: after a rebuild that completes, no date, user, quest or month
\* partition holds a report of an account that is censored.
C7_CensoredReportsGone ==
    (last.op = "rebuild_outputs" /\ last.status = "ok")
    => \A axis \in Axes :
          \A k \in DOMAIN bucket[axis] :
              \A r \in bucket[axis][k] : r.reporter \notin bucket.censored

\* the skip flag of an axis
SkipFlag(event, axis) ==
    CASE axis = "date" -> event.skipBuildDate
      [] axis = "user" -> event.skipBuildUser
      [] axis = "quest" -> event.skipBuildQuest
      [] axis = "month" -> event.skipBuildMonth

\* the event with the skip flag of an axis cleared
Unskipped(event, axis) ==
    CASE axis = "date" -> [event EXCEPT !.skipBuildDate = FALSE]
      [] axis = "user" -> [event EXCEPT !.skipBuildUser = FALSE]
      [] axis = "quest" -> [event EXCEPT !.skipBuildQuest = FALSE]
      [] axis = "month" -> [event EXCEPT !.skipBuildMonth = FALSE]

\* C8: a rebuild invoked with the skip flag of an axis set writes no
\* partition of that axis, and leaves the other axes as the same rebuild
\* without that flag leaves them.
C8_SkipFlagSkipsItsAxis ==
    \A event \in Events : \A axis \in Axes :
        SkipFlag(event, axis) =>
            LET e == rebuild_outputs(bucket, now, event,
                                     IOCount(rebuild_steps(event)))
                other == rebuild_outputs(bucket, now, Unskipped(event, axis),
                                         IOCount(rebuild_steps(Unskipped(event, axis))))
            IN  /\ \A w \in e.written : w[1] # axis
                /\ e.bucket[axis] = bucket[axis]
                /\ \A a \in Axes \ {axis} : e.bucket[a] = other.bucket[a]

\* the partitioning of a set of reports by the rule of an axis
PartitionKey(axis, r) ==
    CASE axis = "date" -> date_of(r.timestamp)
      [] axis = "user" -> r.reporter
      [] axis = "quest" -> r.quest_id
      [] axis = "month" -> month_of(date_of(r.timestamp))

Recomputed(axis, reports) ==
    [k \in {PartitionKey(axis, r) : r \in reports} |->
        {r \in reports : PartitionKey(axis, r) = k}]

\* C9: when a rebuild completes, whatever its skip target date and whatever
\* the bucket held, each axis whose skip flag was not set holds exactly the
\* partitions of the reports of the raw log without the censored accounts.
C9_UnskippedAxesRecomputed ==
    \A event \in Events :
        LET e == rebuild_outputs(bucket, now, event,
                                 IOCount(rebuild_steps(event)))
        IN  e.status = "ok" =>
                \A axis \in Axes :
                    ~SkipFlag(event, axis) =>
                        e.bucket[axis] = Recomputed(axis, FilteredReports(bucket))

----------------------------------------------------------------------------
(* Properties of a scheduled run that is run again *)

\* the storage calls of collect_tweets up to the end of the render fan-out
FanOutDone ==
    LET i == CHOOSE j \in DOMAIN collect_steps :
                 collect_steps[j].call = "render_error_contents"
    IN  IOCount(SubSeq(collect_steps, 1, i))

\* C10: a scheduled run that fails once the render fan-out has written its
\* pages fails at saving the latest tweet id, so the next run asks the
\* collector the same question and can get the same tweets again; and when it
\* gets them, alone or with newer ones, and completes, the date, user and
\* quest partitions hold what one successful run over the tweets it got
\* leaves in them.
C10_RetryMergesOnce ==
    now < MaxClock =>
        \A collected \in Agent_collect(max_repeat, since_id(bucket),
                                       bucket.censored, now + 1) :
            ~NoTweets(collected.tweets) =>
                LET failed == collect_tweets(bucket, now + 1, collected, FanOutDone)
                    reobserved ==
                        {c \in Agent_collect(max_repeat, since_id(failed.bucket),
                                             failed.bucket.censored, now + 2) :
                            Range(collected.tweets) \subseteq Range(c.tweets)}
                IN  /\ failed.status = "error"
                    /\ failed.failed_at = "upload_latest_tweet_id"
                    /\ \E w \in failed.written : w[1] \in {"date", "user", "quest", "errors"}
                    /\ since_id(failed.bucket) = since_id(bucket)
                    /\ failed.bucket.censored = bucket.censored
                    /\ reobserved # {}
                    /\ \A c \in reobserved :
                          LET once == collect_tweets(bucket, now + 2, c,
                                                     IOCount(collect_steps))
                              retry == collect_tweets(failed.bucket, now + 2, c,
                                                      IOCount(collect_steps))
                          IN  /\ once.status = "ok"
                              /\ retry.status = "ok"
                              /\ \A axis \in {"date", "user", "quest"} :
                                    retry.bucket[axis] = once.bucket[axis]
                              /\ retry.bucket.cursor = once.bucket.cursor

\* a scheduled run completed over the tweets that the run before it had
\* rendered when it failed at saving the latest tweet id
C10_RetriedAfterFailure ==
    /\ last.op = "collect_tweets"
    /\ last.status = "ok"
    /\ last.again
    /\ LastReports # {}
    /\ \A r \in LastReports :
          /\ date_of(r.timestamp) \in DOMAIN bucket.date
          /\ r \in bucket.date[date_of(r.timestamp)]

----------------------------------------------------------------------------
(* Properties of the raw log *)

\* the tweets held in the raw log
RawItems(b) == UNION {b.raw[k] : k \in DOMAIN b.raw}

\* C11: in every state, also after an invocation that failed part-way, every
\* report on a date, user, quest or month page or on a list, and every parse
\* error on the error page, is that of a tweet held in the raw log.
C11_RenderedFromRawLog ==
    /\ \A axis \in {"date", "user", "userlist", "quest", "questlist", "month"} :
          \A k \in DOMAIN bucket[axis] :
              \A r \in bucket[axis][k] :
                  \E tw \in RawItems(bucket) :
                      /\ ~RaisesTweetParseError(tw)
                      /\ RunReport(tw) = r
    /\ \A k \in DOMAIN bucket.errors :
          \A x \in bucket.errors[k] :
              /\ x.tweet \in RawItems(bucket)
              /\ x = ParseErrorTweet(x.tweet)

\* a recollection failed between two of its renders, and left a date page
C11_FailedBetweenRenders ==
    /\ last.op = "recollect_tweets"
    /\ last.status = "error"
    /\ last.failed_at = "render_user_contents"
    /\ last.wrote
    /\ bucket.date # EmptyMap

----------------------------------------------------------------------------
(* Properties of the cache invalidator *)

\* C12: invalidate_cloudfront_cache makes an invalidation exactly when the
\* key, after a leading slash, ends with /index.html and the size is at least
\* 600; it then makes one request, of one path: the key's directory with its
\* closing slash, not the file.  It changes nothing in the bucket.
C12_InvalidatesIndexDirectory ==
    last.op = "invalidate_cloudfront_cache" =>
        LET path == <<"/">> \o last.event.key
            n == Len(path)
            qualifies == /\ n >= 2
                         /\ path[n] = "index.html"
                         /\ path[n - 1] = "/"
                         /\ last.event.size >= 600
        IN  IF qualifies
            THEN last.invalidations =
                    << [Quantity |-> 1, Items |-> <<SubSeq(path, 1, n - 1)>>] >>
            ELSE last.invalidations = <<>>

\* a write of 2000 bytes to x/index.html was acted on
C12_LargeIndexInvalidated ==
    /\ last.op = "invalidate_cloudfront_cache"
    /\ last.event = [key |-> <<"x", "/", "index.html">>, size |-> 2000]
    /\ last.invalidations # <<>>

----------------------------------------------------------------------------
(* More properties of the recollection endpoint *)

\* the censored accounts the bucket may hold
CensoredSets == SUBSET Authors

\* C13: a recollection, whatever its request body, whatever the collector
\* finds and wherever it fails, writes neither the latest tweet id nor the
\* censored accounts and leaves both as they are; and what it does is the same
\* whatever the censored accounts are.
C13_RecollectLeavesCursorAndCensored ==
    \A data \in Requests :
        LET candidates == IF BadRequest(data) THEN <<>>
                          ELSE Candidates(bucket, parse_multi(data.urls))
        IN  \A found \in Findable(candidates, now) :
            LET all == IOCount(recollect_steps(split_tweets_by_date(
                                   Agent_get_multi(candidates, found))))
                done == recollect_tweets(bucket, now, data, found, all)
            IN  /\ \A n \in 0..all :
                      LET e == recollect_tweets(bucket, now, data, found, n)
                      IN  /\ e.bucket.cursor = bucket.cursor
                          /\ e.bucket.censored = bucket.censored
                          /\ \A i \in DOMAIN e.log :
                                e.log[i].axis \notin {"cursor", "censored"}
                /\ \A C \in CensoredSets \ {bucket.censored} :
                      LET other == recollect_tweets(
                              [bucket EXCEPT !.censored = C], now, data, found, all)
                      IN  /\ other.status = done.status
                          /\ other.log = done.log
                          /\ other.bucket = [done.bucket EXCEPT !.censored = C]

\* a recollection wrote pages while the bucket holds a latest tweet id and a
\* censored account
C13_RecollectedBesideCursor ==
    /\ last.op = "recollect_tweets"
    /\ last.contacted
    /\ last.wrote
    /\ bucket.cursor.tag = "digits"
    /\ bucket.censored # {}

----------------------------------------------------------------------------
(* Properties of the order of writes *)

\* in a log of writes, each write of pages of the axis is followed at once
\* by the build of its index
LeavesThenIndex(log, axis, index) ==
    \A j \in DOMAIN log :
        log[j].axis = axis => (j + 1 \in DOMAIN log /\ log[j + 1].axis = index)

\* C14: in a rebuild no month page is written after the latest-month index
\* was built, and the index lists the month pages there are; in rebuilds and
\* scheduled runs each write of date pages is followed by the build of the
\* latest-date index, which lists the date pages there are.
C14_LeavesBeforeIndex ==
    /\ \A event \in Events :
          LET e == rebuild_outputs(bucket, now, event, IOCount(rebuild_steps(event)))
          IN  /\ \A i, j \in DOMAIN e.log :
                    (e.log[i].axis = "latest_month" /\ e.log[j].axis = "month")
                        => j < i
              /\ LeavesThenIndex(e.log, "month", "latest_month")
              /\ ~event.skipBuildMonth =>
                    /\ \E i \in DOMAIN e.log : e.log[i].axis = "latest_month"
                    /\ e.bucket.latest_month = DOMAIN e.bucket.month
              /\ LeavesThenIndex(e.log, "date", "latest_date")
              /\ e.bucket.latest_date = DOMAIN e.bucket.date
    /\ now < MaxClock =>
          \A collected \in Agent_collect(max_repeat, since_id(bucket),
                                         bucket.censored, now + 1) :
              ~NoTweets(collected.tweets) =>
                  LET e == collect_tweets(bucket, now + 1, collected,
                                          IOCount(collect_steps))
                  IN  /\ LeavesThenIndex(e.log, "date", "latest_date")
                      /\ e.bucket.latest_date = DOMAIN e.bucket.date

\* a rebuild wrote month pages and the index that lists them
C14_MonthIndexBuilt ==
    /\ last.op = "rebuild_outputs"
    /\ last.status = "ok"
    /\ bucket.month # EmptyMap
    /\ bucket.latest_month = DOMAIN bucket.month

\* the log holds a write of the axis before position i
WrittenBefore(log, axis, i) == \E j \in DOMAIN log : j < i /\ log[j].axis = axis

\* C15: in a scheduled run the latest tweet id is written after the raw log
\* file and after the date, user, quest and error renders, and the censored
\* accounts after the latest tweet id; a run that fails at the put, at a
\* render or at the save of the latest tweet id leaves the latest tweet id as
\* it found it, so that the next run is offered the tweets of this one again.
C15_CursorSavedLast ==
    now < MaxClock =>
        \A collected \in Agent_collect(max_repeat, since_id(bucket),
                                       bucket.censored, now + 1) :
            ~NoTweets(collected.tweets) =>
                \A n \in 0..IOCount(collect_steps) :
                    LET e == collect_tweets(bucket, now + 1, collected, n)
                        early == {"put", "render_date_contents",
                                  "render_user_contents", "render_quest_contents",
                                  "render_error_contents", "upload_latest_tweet_id"}
                    IN  /\ \A i \in DOMAIN e.log :
                              /\ e.log[i].axis = "cursor" =>
                                    /\ \A axis \in {"raw", "latest_date",
                                                      "questlist", "errors"} :
                                          WrittenBefore(e.log, axis, i)
                                    /\ e.reports # <<>> =>
                                          /\ WrittenBefore(e.log, "user", i)
                                          /\ WrittenBefore(e.log, "quest", i)
                                    /\ i >= Len(e.log) - 1
                              /\ e.log[i].axis = "censored" =>
                                    /\ WrittenBefore(e.log, "cursor", i)
                                    /\ i = Len(e.log)
                        /\ e.failed_at \in early =>
                              /\ e.status = "error"
                              /\ e.bucket.cursor = bucket.cursor
                              /\ e.bucket.censored = bucket.censored
                              /\ \E again \in Agent_collect(max_repeat,
                                        since_id(e.bucket), e.bucket.censored, now + 2) :
                                    Range(collected.tweets) \subseteq Range(again.tweets)
                        /\ e.failed_at \notin early =>
                              e.bucket.cursor = Digits(collected.tweets[1].tweet_id)

\* a scheduled run failed at its last render, with tweets newer than the
\* latest tweet id an earlier run had saved
C15_FailedBeforeCursor ==
    /\ last.op = "collect_tweets"
    /\ last.status = "error"
    /\ last.failed_at = "render_error_contents"
    /\ last.wrote
    /\ bucket.cursor.tag = "digits"
    /\ last.tweets # <<>>
    /\ last.tweets[1] > bucket.cursor.val

----------------------------------------------------------------------------
(* Properties of a recollection that is called again *)

\* a recollection that runs to its end
Recollected(b, data, found) ==
    LET candidates == Candidates(b, parse_multi(data.urls))
    IN  recollect_tweets(b, now, data, found,
            IOCount(recollect_steps(split_tweets_by_date(
                        Agent_get_multi(candidates, found)))))

\* what the collector may find for a request
FindableFor(b, data) == Findable(Candidates(b, parse_multi(data.urls)), now)

\* every tweet the request asks for was on the page of the user its URL
\* names, or was found, parsed into a report, and asked for under the name
\* of its author
Settled(b, data, found) ==
    \A i \in DOMAIN data.urls :
        LET u == data.urls[i]
        IN  \/ u.tweet_id \in UserOutputRepository_load(b, u.screen_name)
            \/ /\ u.tweet_id \in found
               /\ TweetCopy(u.tweet_id).wellformed
               /\ TweetCopy(u.tweet_id).screen_name = u.screen_name

\* C16 as stated: after a recollection that returned success, whatever it
\* fetched and parsed, a second one with the same request finds no
\* candidate, calls the collector not at all, writes nothing and succeeds.
C16_SecondCallDoesNothing ==
    \A data \in Requests :
        ~InvalidRequest(data) =>
            \A found \in FindableFor(bucket, data) :
                LET first == Recollected(bucket, data, found)
                IN  first.status = "ok" =>
                        \A found2 \in FindableFor(first.bucket, data) :
                            LET second == Recollected(first.bucket, data, found2)
                            IN  /\ second.status = "ok"
                                /\ second.candidates = <<>>
                                /\ ~second.contacted
                                /\ second.written = {}

\* C16: after a recollection that returned success, a second one with the
\* same request finds no candidate, calls the collector not at all, writes
\* nothing and succeeds exactly when every tweet asked for was on its user's
\* page before, or was found, parsed into a report and asked for under its
\* author's name; otherwise it calls the collector again, for the tweets that
\* are still on no page, and when it is given no tweet the first call was not
\* given it leaves the bucket as the first call left it.
C16_SecondCallWhenSettled ==
    \A data \in Requests :
        ~InvalidRequest(data) =>
            \A found \in FindableFor(bucket, data) :
                LET first == Recollected(bucket, data, found)
                IN  first.status = "ok" =>
                        \A found2 \in FindableFor(first.bucket, data) :
                            LET second == Recollected(first.bucket, data, found2)
                            IN  /\ second.status = "ok"
                                /\ Settled(bucket, data, found) <=>
                                      (/\ second.candidates = <<>>
                                       /\ ~second.contacted
                                       /\ second.written = {})
                                /\ ~Settled(bucket, data, found) => second.contacted
                                /\ found2 \subseteq found => second.bucket = first.bucket

\* a recollection found every tweet it was asked for on its user's page, in
\* a bucket whose raw log holds a file that an earlier recollection wrote
C16_CalledAgain ==
    /\ last.op = "recollect_tweets"
    /\ last.request = "all_present"
    /\ last.status = "ok"
    /\ ~last.wrote
    /\ MidnightKey(0) \in DOMAIN bucket.raw

----------------------------------------------------------------------------
(* More properties of the raw log *)

\* C17: no step takes a tweet out of a file of the raw log; a scheduled run
\* puts its tweets into a file that was not there; and a recollection that
\* completes has each tweet it fetched in the file of the tweet's day.
C17_RawLogKeepsItems ==
    [][/\ \A k \in DOMAIN bucket.raw :
             /\ k \in DOMAIN bucket'.raw
             /\ bucket.raw[k] \subseteq bucket'.raw[k]
       /\ (last'.op = "collect_tweets" /\ now' = now + 1
              /\ bucket'.raw # bucket.raw)
             => /\ TimestampKey(now') \notin DOMAIN bucket.raw
                /\ bucket'.raw[TimestampKey(now')] =
                      {TweetCopy(id) : id \in Range(last'.tweets)}
       /\ (last'.op = "recollect_tweets" /\ last'.status = "ok")
             => \A id \in Range(last'.tweets) :
                   LET key == <<date_of(TweetCopy(id).created_at), 0>>
                   IN  /\ key \in DOMAIN bucket'.raw
                       /\ TweetCopy(id) \in bucket'.raw[key]]_vars

\* a recollection added a tweet to a file of the raw log that holds another
\* tweet, which it did not fetch
C17_AppendedToHeldFile ==
    /\ last.op = "recollect_tweets"
    /\ last.status = "ok"
    /\ \E id \in Range(last.tweets) :
          LET key == MidnightKey(date_of(TweetCopy(id).created_at))
          IN  /\ key \in DOMAIN bucket.raw
              /\ \E tw \in bucket.raw[key] : tw.tweet_id \notin Range(last.tweets)

----------------------------------------------------------------------------
(* Properties of invocations under way at once *)

\* the topic page a report belongs to
QuestOf(r) == PartitioningRule("ByQuest", r)

\* C18: nothing guards the read-merge-write of a page.  When an invocation
\* writes the topic pages, each page it writes becomes what the invocation
\* read of it, merged with its own reports, whatever the page holds by then:
\* a report another invocation has written to the page in between is gone.
C18_WriteKeepsOnlyWhatWasRead ==
    [][\A i \in Slots :
          (running[i].pc = "loaded" /\ running'[i].pc = "running") =>
             LET partitions == Recorder_add_all("ByQuest", running[i].reports)
                 original == running[i].original
             IN  \A r \in running'[i].committed :
                    LET k == QuestOf(r)
                    IN  /\ k \in DOMAIN bucket'.quest
                        /\ bucket'.quest[k] =
                              partitions[k] \cup
                              (IF k \in DOMAIN original THEN original[k] ELSE {})
                        /\ \A lost \in (IF k \in DOMAIN bucket.quest
                                         THEN bucket.quest[k] ELSE {}) :
                              lost \in bucket'.quest[k]
                                 <=> \/ lost \in partitions[k]
                                     \/ /\ k \in DOMAIN original
                                        /\ lost \in original[k]]_vars

\* a lost update: a scheduled run and a recollection have both written a
\* topic page, and the page lacks a report that the scheduled run wrote to it
C18_LostUpdate ==
    \E i \in Slots, j \in Slots :
        /\ i # j
        /\ running[i].op = "collect_tweets"
        /\ running[j].op = "recollect_tweets"
        /\ running[j].committed # {}
        /\ \E r \in running[i].committed :
              /\ QuestOf(r) \in DOMAIN bucket.quest
              /\ r \notin bucket.quest[QuestOf(r)]

----------------------------------------------------------------------------
(* Properties of a scheduled run without a latest tweet id *)

\* the latest tweet id is not stored, or what is stored is no number
NoCursor(b) == b.cursor.tag \in {"absent", "garbage", "undecodable"}

\* C19: a scheduled run that finds no latest tweet id stored, or one that is
\* no number, hands the collector no since_id and a budget of 5 pages; when
\* no storage call fails it returns normally, having done what the same run
\* does over a stored number, and it ends with the id of the newest tweet
\* stored as the latest tweet id when the collector returned a tweet (and
\* with the stored content untouched when it returned none).
C19_NoCursorIsColdStart ==
    (NoCursor(bucket) /\ now < MaxClock) =>
        /\ since_id(bucket) = None
        /\ max_repeat = 5
        /\ \A collected \in Agent_collect(max_repeat, since_id(bucket),
                                           bucket.censored, now + 1) :
              LET e == collect_tweets(bucket, now + 1, collected,
                                      IOCount(collect_steps))
                  normal == collect_tweets([bucket EXCEPT !.cursor = Digits(0)],
                                           now + 1, collected,
                                           IOCount(collect_steps))
              IN  /\ e.status = "ok"
                  /\ ~e.raised
                  /\ e.contacted
                  /\ Len(collected.tweets) <= 5 * PageSize
                  /\ NoTweets(collected.tweets) =>
                        /\ e.bucket = bucket
                        /\ e.written = {}
                  /\ ~NoTweets(collected.tweets) =>
                        /\ e.bucket.cursor =
                              Digits(collected.tweets[1].tweet_id)
                        /\ since_id(e.bucket) =
                              Some(collected.tweets[1].tweet_id)
                        /\ <<"cursor", 0>> \in e.written
                        /\ e.bucket = normal.bucket
                        /\ e.log = normal.log

----------------------------------------------------------------------------
(* Properties of the month pages *)

\* the reports on the month pages
MonthReports(b) == UNION {b.month[k] : k \in DOMAIN b.month}

\* C20: a scheduled run or a recollection, whether it returns or fails
\* part-way, leaves every month page and the latest-month index as they
\* were; when it returns normally, each report it parsed is on its date page,
\* its user page and its topic page, and is on a month page only if it was
\* there before.
C20_MonthPagesLeftToRebuild ==
    [][last'.op \in {"collect_tweets", "recollect_tweets"} =>
          /\ bucket'.month = bucket.month
          /\ bucket'.latest_month = bucket.latest_month
          /\ last'.status = "ok" =>
                \A id \in Range(last'.tweets) :
                    ~RaisesTweetParseError(TweetCopy(id)) =>
                        LET r == RunReport(TweetCopy(id))
                            d == PartitioningRule("ByDate", r)
                            u == PartitioningRule("ByUser", r)
                            q == PartitioningRule("ByQuest", r)
                        IN  /\ d \in DOMAIN bucket'.date
                            /\ r \in bucket'.date[d]
                            /\ u \in DOMAIN bucket'.user
                            /\ r \in bucket'.user[u]
                            /\ q \in DOMAIN bucket'.quest
                            /\ r \in bucket'.quest[q]
                            /\ r \in MonthReports(bucket')
                                  <=> r \in MonthReports(bucket)]_vars

\* after a rebuild has written month pages, a scheduled run or a recollection
\* returned with a report that is on its date page and on no month page
C20_IngestedSinceRebuild ==
    /\ last.op \in {"collect_tweets", "recollect_tweets"}
    /\ last.status = "ok"
    /\ MonthReports(bucket) # {}
    /\ bucket.latest_month # {}
    /\ \E id \in Range(last.tweets) :
          /\ ~RaisesTweetParseError(TweetCopy(id))
          /\ LET r == RunReport(TweetCopy(id))
                 d == PartitioningRule("ByDate", r)
             IN  /\ d \in DOMAIN bucket.date
                 /\ r \in bucket.date[d]
                 /\ r \notin MonthReports(bucket)

====
